---- MODULE Spec2Model ----
(***************************************************************************)
(* PRNU fingerprint pipelines: the strict (camera unavailable) pipeline,   *)
(* the camera-available pipeline (full_prnu_pipeline.py) and the direct    *)
(* file-vs-file comparison (prnu_compare.py).                              *)
(*                                                                         *)
(* A file is a record: its path (a sequence of one-character strings),     *)
(* whether open() succeeds on it, its content (bytes, an abstract id),     *)
(* whether rawpy decodes it, and the grid `gray - denoised` the decoder,   *)
(* cvtColor and GaussianBlur yield for it (the external collaborators).    *)
(* A grid is [h, w, c] with c the h*w cells in row-major order.  Cell      *)
(* values are float32 values in fixed point (Scale units per 1.0) with the *)
(* IEEE specials NaN, +Inf and -Inf.                                       *)
(***************************************************************************)
EXTENDS Integers, Sequences, FiniteSets, TLC

\* ----------------------------------------------------------------- bounds
MaxFiles == 16
Scale == 100
Huge == 1000000

\* ------------------------------------------------------ program constants
MinRefsStrict == 15
MinRefsLenient == 10

\* ------------------------------------------------------- float arithmetic
PosInf == Huge
NegInf == 0 - Huge
NaN == Huge + 1

IsFinite(x) == x > NegInf /\ x < PosInf

Sign(x) == IF x < 0 THEN -1 ELSE 1

\* integer division rounding toward zero
RDiv(a, b) == Sign(a) * Sign(b) * ((Sign(a) * a) \div (Sign(b) * b))

FAdd(x, y) ==
    IF x = NaN \/ y = NaN THEN NaN
    ELSE IF ~IsFinite(x) THEN (IF ~IsFinite(y) /\ y # x THEN NaN ELSE x)
    ELSE IF ~IsFinite(y) THEN y
    ELSE x + y

FMul(x, y) ==
    IF x = NaN \/ y = NaN THEN NaN
    ELSE IF ~IsFinite(x) \/ ~IsFinite(y)
         THEN (IF x = 0 \/ y = 0 THEN NaN
               ELSE IF Sign(x) = Sign(y) THEN PosInf ELSE NegInf)
    ELSE RDiv(x * y, Scale)

\* numpy float division: a zero divisor yields NaN or +-Inf, never an exception
FDiv(x, y) ==
    IF x = NaN \/ y = NaN THEN NaN
    ELSE IF ~IsFinite(x) THEN (IF ~IsFinite(y) THEN NaN
                               ELSE IF Sign(x) = Sign(y) THEN PosInf ELSE NegInf)
    ELSE IF ~IsFinite(y) THEN 0
    ELSE IF y = 0 THEN (IF x = 0 THEN NaN ELSE IF x > 0 THEN PosInf ELSE NegInf)
    ELSE RDiv(x * Scale, y)

RECURSIVE ISqrtBetween(_, _, _)
ISqrtBetween(n, lo, hi) ==
    IF lo >= hi THEN lo
    ELSE LET mid == (lo + hi + 1) \div 2
         IN  IF mid * mid <= n THEN ISqrtBetween(n, mid, hi)
             ELSE ISqrtBetween(n, lo, mid - 1)

\* floor of the square root of a natural number below 2^30
ISqrt(n) == ISqrtBetween(n, 0, 32767)

FSqrt(x) ==
    IF x = NaN THEN NaN
    ELSE IF x = PosInf THEN PosInf
    ELSE IF x < 0 THEN NaN
    ELSE ISqrt(x * Scale)

RECURSIVE FSum(_)
FSum(s) == IF s = <<>> THEN 0 ELSE FAdd(Head(s), FSum(Tail(s)))

\* np.std: population standard deviation of the cells
Std(c) ==
    IF \E k \in 1..Len(c) : ~IsFinite(c[k]) THEN NaN
    ELSE LET n == Len(c)
             mean == RDiv(FSum(c), n)
             sq == [k \in 1..n |-> (c[k] - mean) * (c[k] - mean)]
         IN  ISqrt(FSum(sq) \div n)

\* ------------------------------------------------------------------ grids
Shape(g) == <<g.h, g.w>>

At(g, i, j) == g.c[(i - 1) * g.w + j]

Min(a, b) == IF a < b THEN a ELSE b

SetMin(S) == CHOOSE x \in S : \A y \in S : x <= y

\* Crop with the column bound forgotten: r[:h]
CropRowsOnly(r, h, w) ==
    LET hh == Min(h, r.h)
    IN  [h |-> hh, w |-> r.w, c |-> SubSeq(r.c, 1, hh * r.w)]

\* numpy slice r[:h, :w]: the top-left sub-grid, clipped to r's own extent
Crop(r, h, w) ==
    LET hh == Min(h, r.h)
        ww == Min(w, r.w)
    IN  [h |-> hh, w |-> ww,
         c |-> [k \in 1..(hh * ww) |-> At(r, ((k - 1) \div ww) + 1, ((k - 1) % ww) + 1)]]

\* residual /= np.std(residual)
DivideByStd(g) ==
    LET s == Std(g.c)
    IN  [g EXCEPT !.c = [k \in 1..Len(g.c) |-> FDiv(g.c[k], s)]]

HasUndefined(g) == \E k \in 1..Len(g.c) : ~IsFinite(g.c[k])

\* ------------------------------------------------------------------ paths
Lower(ch) ==
    CASE ch = "C" -> "c"
      [] ch = "R" -> "r"
      [] ch = "J" -> "j"
      [] ch = "P" -> "p"
      [] ch = "G" -> "g"
      [] OTHER -> ch

LowerStr(s) == [k \in 1..Len(s) |-> Lower(s[k])]

EndsWith(s, suffix) ==
    /\ Len(s) >= Len(suffix)
    /\ SubSeq(s, Len(s) - Len(suffix) + 1, Len(s)) = suffix

Basename(p) ==
    LET slashes == {k \in 1..Len(p) : p[k] = "/"}
        last == IF slashes = {} THEN 0 ELSE CHOOSE k \in slashes : \A m \in slashes : m <= k
    IN  SubSeq(p, last + 1, Len(p))

\* hashlib.sha256(...).hexdigest(): an abstract digest, distinct for the
\* contents the model uses
Sha256(bytes) == (bytes * 7919 + 104729) % 65536

\* glob.glob(os.path.join(ref_folder, "*.CR2")): fnmatch of the basename
\* against the pattern, after os.path.normcase (lower-casing on a
\* case-insensitive platform, the identity elsewhere)
GlobPattern == <<".", "C", "R", "2">>

NormCase(s, caseInsensitive) == IF caseInsensitive THEN LowerStr(s) ELSE s

GlobMatch(f, caseInsensitive) ==
    EndsWith(NormCase(Basename(f.path), caseInsensitive),
             NormCase(GlobPattern, caseInsensitive))

Glob(listing, caseInsensitive) ==
    SelectSeq(listing, LAMBDA f : GlobMatch(f, caseInsensitive))

\* ------------------------------------------------- files the runs are fed
NoGrid == [h |-> 0, w |-> 0, c |-> <<>>]

Raw(h, w, ints) == [h |-> h, w |-> w, c |-> [k \in 1..Len(ints) |-> ints[k] * Scale]]

Kinds ==
    { [ext |-> <<".", "C", "R", "2">>, readable |-> TRUE, decodes |-> TRUE,
       bytes |-> 1, raw |-> Raw(2, 2, <<2, 0, 0, -2>>)],
      [ext |-> <<".", "C", "R", "2">>, readable |-> TRUE, decodes |-> TRUE,
       bytes |-> 2, raw |-> Raw(1, 2, <<1, -1>>)],
      [ext |-> <<".", "c", "r", "2">>, readable |-> TRUE, decodes |-> TRUE,
       bytes |-> 3, raw |-> Raw(2, 1, <<-1, 2>>)],
      [ext |-> <<".", "C", "r", "2">>, readable |-> TRUE, decodes |-> TRUE,
       bytes |-> 4, raw |-> Raw(3, 2, <<1, 3, -2, 0, 2, -1>>)],
      [ext |-> <<".", "j", "p", "g">>, readable |-> TRUE, decodes |-> FALSE,
       bytes |-> 5, raw |-> NoGrid],
      [ext |-> <<".", "C", "R", "2">>, readable |-> FALSE, decodes |-> FALSE,
       bytes |-> 6, raw |-> NoGrid],
      [ext |-> <<".", "C", "R", "2">>, readable |-> TRUE, decodes |-> FALSE,
       bytes |-> 7, raw |-> NoGrid],
      [ext |-> <<".", "C", "R", "2">>, readable |-> TRUE, decodes |-> TRUE,
       bytes |-> 8, raw |-> Raw(2, 2, <<0, 0, 0, 0>>)] }

Stems == <<"a", "b", "c", "d", "e", "f", "g", "h", "i", "j", "k", "l", "m",
           "n", "o", "p", "q", "r", "s", "t", "u", "v", "w", "x", "y", "z">>

MkFile(i, kind) ==
    [path |-> <<"d", "/", Stems[i]>> \o kind.ext, readable |-> kind.readable,
     decodes |-> kind.decodes, bytes |-> kind.bytes, raw |-> kind.raw]

\* a folder of n files of one kind, at most one of them of another kind:
\* the first, the middle or the last of the enumeration
OddPositions(n) == {0, 1, (n + 1) \div 2, n}

Listings ==
    UNION { { [i \in 1..n |-> MkFile(i, IF i = pos THEN odd ELSE base)] :
                base \in Kinds, pos \in OddPositions(n), odd \in Kinds } :
            n \in 0..MaxFiles }

\* the test images: one per outcome of extract_residual
TestImages ==
    { MkFile(26, kind) : kind \in {k \in Kinds : k.readable /\ (k.decodes \/ k.ext = GlobPattern)} }

\* ------------------------------------------------------------------ state
VARIABLES
    mode,          \* "none", "strict", "lenient", "validate" or "direct"
    pc,            \* position of the run
    ref_files,     \* the reference set, in enumeration order
    i,             \* index of the next file of the running loop
    stdout,        \* the lines printed so far
    residuals,     \* the surviving residuals
    fingerprint,   \* the fingerprint, NoGrid until it is built
    test_img,      \* path of the test image (of cr2_a in direct mode)
    res_a,         \* left operand of the correlation (res_test, res_a)
    res_b,         \* right operand of the correlation (fingerprint, res_b)
    corr,          \* the correlation, once computed
    err,           \* the exception that ended the run, "" if none
    extractCalls   \* number of calls of extract_residual so far

vars == <<mode, pc, ref_files, i, stdout, residuals, fingerprint, test_img,
          res_a, res_b, corr, err, extractCalls>>

Line(t, f, n) == [t |-> t, f |-> f, n |-> n]

Init ==
    /\ mode = "none"
    /\ pc = "start"
    /\ ref_files = <<>>
    /\ i = 0
    /\ stdout = <<>>
    /\ residuals = <<>>
    /\ fingerprint = NoGrid
    /\ test_img = <<>>
    /\ res_a = NoGrid
    /\ res_b = NoGrid
    /\ corr = 0
    /\ err = ""
    /\ extractCalls = 0

Raise(e) == pc' = "crashed" /\ err' = e

\* ------------------------------------------------------- extract_residual
\* rawpy.imread / postprocess raise on a file they cannot decode
ExtractRaises(f) == ~f.decodes

\* gray - denoised, divided by its own standard deviation
ExtractResidual(f) == DivideByStd(f.raw)

\* ---------------------------------------------------- validate_references
\* the count rule with the comparison off by one
CountRuleFailsOffByOne(files) == Len(files) <= MinRefsStrict

CountRuleFails(files) == Len(files) < MinRefsStrict

\* the extension rule without the lower-casing
ExtensionOkCaseSensitive(f) == EndsWith(f.path, <<".", "c", "r", "2">>)

ExtensionOk(f) == EndsWith(LowerStr(f.path), <<".", "c", "r", "2">>)

ExtensionRuleFails(files) == \E k \in 1..Len(files) : ~ExtensionOk(files[k])

HashRecord(f) == Line("hash", Basename(f.path), Sha256(f.bytes))

\* Rule 1, Rule 2 and the header line of Rule 3
ValidateRules ==
    /\ pc = "validate"
    /\ IF CountRuleFails(ref_files)
          THEN Raise("size") /\ UNCHANGED <<i, stdout>>
       ELSE IF ExtensionRuleFails(ref_files)
          THEN Raise("extension") /\ UNCHANGED <<i, stdout>>
       ELSE /\ pc' = "hash"
            /\ i' = 1
            /\ stdout' = Append(stdout, Line("header", <<>>, 0))
            /\ err' = err
    /\ UNCHANGED <<mode, ref_files, residuals, fingerprint, test_img, res_a, res_b,
                   corr, extractCalls>>

\* the Rule 3 loop step with an unreadable file passed over instead of raising
HashStepSkipsUnreadable ==
    /\ pc = "hash"
    /\ i <= Len(ref_files)
    /\ stdout' = IF ref_files[i].readable
                    THEN Append(stdout, Line("hash", Basename(ref_files[i].path),
                                             Sha256(ref_files[i].bytes)))
                    ELSE stdout
    /\ i' = i + 1
    /\ UNCHANGED <<mode, pc, ref_files, residuals, fingerprint, test_img, res_a, res_b,
                   corr, err, extractCalls>>

\* one iteration of the Rule 3 loop: open, read, digest, print
HashStep ==
    /\ pc = "hash"
    /\ i <= Len(ref_files)
    /\ IF ref_files[i].readable
          THEN /\ stdout' = Append(stdout, HashRecord(ref_files[i]))
               /\ i' = i + 1
               /\ UNCHANGED <<pc, err>>
          ELSE Raise("open") /\ UNCHANGED <<i, stdout>>
    /\ UNCHANGED <<mode, ref_files, residuals, fingerprint, test_img, res_a, res_b,
                   corr, extractCalls>>

\* return True: back in build_reference_fingerprint, or the end of a lone call
ValidateReturn ==
    /\ pc = "hash"
    /\ i > Len(ref_files)
    /\ IF mode = "strict"
          THEN pc' = "extract" /\ i' = 1
          ELSE pc' = "done" /\ i' = i
    /\ UNCHANGED <<mode, ref_files, stdout, residuals, fingerprint, test_img, res_a,
                   res_b, corr, err, extractCalls>>

\* validate_references called on a list of paths of the caller's choosing
CallValidate(files) ==
    /\ pc = "start"
    /\ mode' = "validate"
    /\ ref_files' = files
    /\ pc' = "validate"
    /\ UNCHANGED <<i, stdout, residuals, fingerprint, test_img, res_a, res_b, corr,
                   err, extractCalls>>

\* ------------------------------------------- build_reference_fingerprint
\* build_reference_fingerprint with the validate_references call left out
StartStrictNoValidate(listing, caseInsensitive) ==
    /\ pc = "start"
    /\ mode' = "strict"
    /\ ref_files' = SelectSeq(listing, LAMBDA f :
                        EndsWith(NormCase(Basename(f.path), caseInsensitive),
                                 NormCase(GlobPattern, caseInsensitive)))
    /\ pc' = "extract"
    /\ i' = 1
    /\ UNCHANGED <<stdout, residuals, fingerprint, test_img, res_a, res_b, corr, err,
                   extractCalls>>

StartStrict(listing, caseInsensitive) ==
    /\ pc = "start"
    /\ mode' = "strict"
    /\ ref_files' = Glob(listing, caseInsensitive)
    /\ pc' = "validate"
    /\ UNCHANGED <<i, stdout, residuals, fingerprint, test_img, res_a, res_b, corr,
                   err, extractCalls>>

\* -------------------------------------------------------- build_fingerprint
StartLenient(listing, caseInsensitive) ==
    /\ pc = "start"
    /\ mode' = "lenient"
    /\ ref_files' = Glob(listing, caseInsensitive)
    /\ IF Len(ref_files') < MinRefsLenient
          THEN Raise("size") /\ i' = i
          ELSE pc' = "extract" /\ i' = 1 /\ err' = err
    /\ UNCHANGED <<stdout, residuals, fingerprint, test_img, res_a, res_b, corr,
                   extractCalls>>

\* the extraction loop step without the try / except
ExtractStepNoCatch ==
    /\ pc = "extract"
    /\ i <= Len(ref_files)
    /\ extractCalls' = extractCalls + 1
    /\ IF ~ref_files[i].decodes
          THEN pc' = "crashed" /\ err' = "decode" /\ UNCHANGED <<stdout, residuals, i>>
          ELSE /\ residuals' = Append(residuals, DivideByStd(ref_files[i].raw))
               /\ stdout' = Append(stdout, Line("processed", ref_files[i].path, 0))
               /\ i' = i + 1
               /\ UNCHANGED <<pc, err>>
    /\ UNCHANGED <<mode, ref_files, fingerprint, test_img, res_a, res_b, corr>>

\* one iteration of the extraction loop, with its try / except
ExtractStep ==
    /\ pc = "extract"
    /\ i <= Len(ref_files)
    /\ extractCalls' = extractCalls + 1
    /\ IF ExtractRaises(ref_files[i])
          THEN /\ stdout' = Append(stdout, Line("skipping", ref_files[i].path, 0))
               /\ residuals' = residuals
          ELSE /\ residuals' = Append(residuals, ExtractResidual(ref_files[i]))
               /\ stdout' = Append(stdout, Line("processed", ref_files[i].path, 0))
    /\ i' = i + 1
    /\ UNCHANGED <<mode, pc, ref_files, fingerprint, test_img, res_a, res_b, corr, err>>

MinH(rs) == SetMin({rs[k].h : k \in 1..Len(rs)})

MinW(rs) == SetMin({rs[k].w : k \in 1..Len(rs)})

Align(rs) == [k \in 1..Len(rs) |-> Crop(rs[k], MinH(rs), MinW(rs))]

\* np.mean(residuals, axis=0)
Mean(rs) ==
    [h |-> rs[1].h, w |-> rs[1].w,
     c |-> [k \in 1..Len(rs[1].c) |->
              FDiv(FSum([r \in 1..Len(rs) |-> rs[r].c[k]]), Len(rs) * Scale)]]

\* np.mean over a list of arrays raises unless they all have one shape
Stackable(rs) == \A k \in 1..Len(rs) : Shape(rs[k]) = Shape(rs[1])

\* after the loop: align to the smallest shape, average, normalise
BuildFingerprint ==
    /\ pc = "extract"
    /\ i > Len(ref_files)
    /\ IF residuals = <<>>
          THEN Raise("min() arg is an empty sequence")
               /\ UNCHANGED <<residuals, fingerprint>>
       ELSE IF ~Stackable(Align(residuals))
          THEN Raise("inhomogeneous shape")
               /\ residuals' = Align(residuals)
               /\ fingerprint' = fingerprint
       ELSE /\ residuals' = Align(residuals)
            /\ fingerprint' = DivideByStd(Mean(residuals'))
            /\ pc' = "built"
            /\ err' = err
    /\ UNCHANGED <<mode, ref_files, i, stdout, test_img, res_a, res_b, corr,
                   extractCalls>>

\* ---------------------------------------------------------- correlation
\* numpy broadcasting of two 2-D operands: each dimension equal, or one of them 1
Broadcastable(a, b) ==
    /\ a.h = b.h \/ a.h = 1 \/ b.h = 1
    /\ a.w = b.w \/ a.w = 1 \/ b.w = 1

Max(a, b) == IF a > b THEN a ELSE b

BAt(g, r, c) == At(g, IF g.h = 1 THEN 1 ELSE r, IF g.w = 1 THEN 1 ELSE c)

\* a * b
Product(a, b) ==
    LET hh == Max(a.h, b.h)
        ww == Max(a.w, b.w)
    IN  [k \in 1..(hh * ww) |->
           FMul(BAt(a, ((k - 1) \div ww) + 1, ((k - 1) % ww) + 1),
                BAt(b, ((k - 1) \div ww) + 1, ((k - 1) % ww) + 1))]

Squares(a) == [k \in 1..Len(a.c) |-> FMul(a.c[k], a.c[k])]

\* np.sum(a * b) / (np.sqrt(np.sum(a ** 2)) * np.sqrt(np.sum(b ** 2)))
Correlation(a, b) ==
    FDiv(FSum(Product(a, b)),
         FMul(FSqrt(FSum(Squares(a))), FSqrt(FSum(Squares(b)))))

\* the operands are bound; the product raises or the correlation is computed
Correlate(a, b) ==
    /\ res_a' = a
    /\ res_b' = b
    /\ IF Broadcastable(a, b)
          THEN pc' = "render" /\ corr' = Correlation(a, b) /\ err' = err
          ELSE Raise("operands could not be broadcast together") /\ corr' = corr

\* compare_to_fingerprint, up to the correlation
Compare(img) ==
    /\ pc = "built"
    /\ test_img' = img.path
    /\ extractCalls' = extractCalls + 1
    /\ IF ExtractRaises(img)
          THEN Raise("decode") /\ UNCHANGED <<res_a, res_b, corr>>
          ELSE Correlate(Crop(ExtractResidual(img), fingerprint.h, fingerprint.w),
                         fingerprint)
    /\ UNCHANGED <<mode, ref_files, i, stdout, residuals, fingerprint>>

\* compare_prnu, up to the correlation
CompareDirect(a, b) ==
    /\ pc = "start"
    /\ mode' = "direct"
    /\ test_img' = a.path
    /\ IF ExtractRaises(a)
          THEN Raise("decode") /\ extractCalls' = extractCalls + 1
               /\ UNCHANGED <<res_a, res_b, corr>>
       ELSE IF ExtractRaises(b)
          THEN Raise("decode") /\ extractCalls' = extractCalls + 2
               /\ UNCHANGED <<res_a, res_b, corr>>
       ELSE extractCalls' = extractCalls + 2
            /\ Correlate(ExtractResidual(a), ExtractResidual(b))
    /\ UNCHANGED <<ref_files, i, stdout, residuals, fingerprint>>

\* the figure, savefig, and then the two closing prints
Render(saved) ==
    /\ pc = "render"
    /\ IF saved
          THEN /\ stdout' = stdout \o <<Line("saved", Basename(test_img), 0),
                                         Line("score", <<>>, corr)>>
               /\ pc' = "done"
               /\ err' = err
          ELSE Raise("savefig") /\ stdout' = stdout
    /\ UNCHANGED <<mode, ref_files, i, residuals, fingerprint, test_img, res_a, res_b,
                   corr, extractCalls>>

Next ==
    \/ pc = "start" /\ \E listing \in Listings, ci \in BOOLEAN : StartStrict(listing, ci)
    \/ pc = "start" /\ \E listing \in Listings, ci \in BOOLEAN : StartLenient(listing, ci)
    \/ pc = "start" /\ \E files \in Listings : CallValidate(files)
    \/ pc = "start" /\ \E a \in TestImages, b \in TestImages : CompareDirect(a, b)
    \/ ValidateRules
    \/ HashStep
    \/ ValidateReturn
    \/ ExtractStep
    \/ BuildFingerprint
    \/ pc = "built" /\ \E img \in TestImages : Compare(img)
    \/ pc = "render" /\ \E saved \in BOOLEAN : Render(saved)

Spec == Init /\ [][Next]_vars

\* ----------------------------------------------------------------- claims
Pipeline == mode \in {"strict", "lenient"}

Lines(kinds) == SelectSeq(stdout, LAMBDA l : l.t \in kinds)

\* the path ends with ".cr2" in any mix of upper and lower case
HasCr2Ext(p) ==
    /\ Len(p) >= 4
    /\ p[Len(p) - 3] = "."
    /\ p[Len(p) - 2] \in {"c", "C"}
    /\ p[Len(p) - 1] \in {"r", "R"}
    /\ p[Len(p)] = "2"

\* some rule of validate_references fails on the set
SomeRuleFails(files) ==
    \/ Len(files) < 15
    \/ \E k \in 1..Len(files) : ~HasCr2Ext(files[k].path)
    \/ \E k \in 1..Len(files) : ~files[k].readable

\* the files of the reference set that extract_residual succeeds on, in order
SurvivorFiles == SelectSeq(ref_files, LAMBDA f : f.decodes)

Survivors == [k \in 1..Len(SurvivorFiles) |-> ExtractResidual(SurvivorFiles[k])]

\* C1: in the strict pipeline, on every run in which a validation rule fails on
\* the reference set, extract_residual has been called zero times, no
\* fingerprint exists, and the run can only have ended in the validation error.
C1_ValidateBeforeExtract ==
    (mode = "strict" /\ SomeRuleFails(ref_files)) =>
        /\ extractCalls = 0
        /\ fingerprint = NoGrid
        /\ residuals = <<>>
        /\ pc \in {"validate", "hash", "crashed"}
        /\ pc = "crashed" => err \in {"size", "extension", "open"}

\* a strict run that passed the count and extension rules, logged some hashes
\* and then aborted on a member it could not read
C1_Witness ==
    /\ mode = "strict"
    /\ pc = "crashed"
    /\ err = "open"
    /\ i > 1
    /\ extractCalls = 0

\* C2: the size error is raised exactly for the sets below the minimum (15 for
\* validate_references, 10 for build_fingerprint), and it is the error raised
\* whatever the extensions and contents are: the count rule comes first.
C2_CountRule ==
    /\ (mode \in {"strict", "validate"} /\ pc \notin {"start", "validate"}) =>
          ((err = "size") <=> (Len(ref_files) < 15))
    /\ (mode = "lenient" /\ pc # "start") =>
          ((err = "size") <=> (Len(ref_files) < 10))
    /\ err = "size" => pc = "crashed" /\ stdout = <<>> /\ extractCalls = 0

\* a set of 14 files, one of them with a wrong extension, rejected for its size
C2_Witness ==
    /\ mode = "validate"
    /\ Len(ref_files) = 14
    /\ \E k \in 1..Len(ref_files) : ~HasCr2Ext(ref_files[k].path)
    /\ err = "size"

\* C3: for a set of admissible size, the extension error is raised if and only
\* if some member's path does not end with .cr2 (case-insensitively); it fails
\* the whole set: the run is over, nothing was hashed, nothing extracted.
C3_ExtensionRule ==
    (mode \in {"strict", "validate"} /\ pc \notin {"start", "validate"}
       /\ Len(ref_files) >= 15) =>
        /\ (err = "extension") <=> (\E k \in 1..Len(ref_files) : ~HasCr2Ext(ref_files[k].path))
        /\ err = "extension" => pc = "crashed" /\ stdout = <<>> /\ extractCalls = 0

\* an admissible-size set of mixed-case .Cr2 files with a single .jpg among
\* them, rejected as a whole
C3_Witness ==
    /\ mode = "validate"
    /\ Len(ref_files) >= 15
    /\ err = "extension"
    /\ Cardinality({k \in 1..Len(ref_files) : ~HasCr2Ext(ref_files[k].path)}) = 1
    /\ \E k \in 1..Len(ref_files) : SubSeq(ref_files[k].path, 4, 7) = <<".", "C", "r", "2">>

\* the hash records the reference set should have produced: the name after
\* the folder prefix "d/" and the digest of the content, member by member
ExpectedCustody ==
    [k \in 1..Len(ref_files) |->
        [t |-> "hash", f |-> SubSeq(ref_files[k].path, 3, Len(ref_files[k].path)),
         n |-> Sha256(ref_files[k].bytes)]]

\* C4: in the strict pipeline, once extract_residual has been called the hash
\* records are those of the whole reference set, one per member in order
\* (skipped members included); from the extraction loop on they never change;
\* and no hash record exists when the count or the extension rule failed.
C4_CustodyBeforeExtraction ==
    /\ []((mode = "strict" /\ extractCalls > 0) => Lines({"hash"}) = ExpectedCustody)
    /\ [](err \in {"size", "extension"} => Lines({"hash"}) = <<>>)
    /\ [][(mode = "strict" /\ pc \in {"extract", "built", "render"}) =>
            (SelectSeq(stdout', LAMBDA l : l.t = "hash") = Lines({"hash"})
             /\ ref_files' = ref_files)]_vars

\* a strict run with a built fingerprint, a member that was skipped, and that
\* member's hash record on the log
C4_Witness ==
    /\ mode = "strict"
    /\ pc = "built"
    /\ \E k \in 1..Len(ref_files) :
          /\ ~ref_files[k].decodes
          /\ \E m \in 1..Len(stdout) :
                stdout[m].t = "hash" /\ stdout[m].f = Basename(ref_files[k].path)

\* C5: when the extraction loop has ended with zero surviving residuals, the
\* run ends in an explicit "no usable reference residuals" failure.
C5_ExplicitExhaustionError ==
    (Pipeline /\ pc = "crashed" /\ extractCalls > 0 /\ extractCalls = Len(ref_files)
       /\ residuals = <<>>) =>
        err = "no usable reference residuals"

\* C6: no grid with a NaN or Inf cell is ever in the surviving-residual
\* collection, in the fingerprint, or among the operands of the correlation.
C6_NoUndefinedResidual ==
    /\ \A k \in 1..Len(residuals) : ~HasUndefined(residuals[k])
    /\ ~HasUndefined(fingerprint)
    /\ ~HasUndefined(res_a)
    /\ ~HasUndefined(res_b)

\* C7: the extraction loop attempts the files in enumeration order, a failure
\* is logged and skipped and the loop goes on; with at least one survivor the
\* fingerprint is built, from exactly the residuals of the files that
\* extracted, whatever their number.
C7_SkipAndContinue ==
    Pipeline =>
        LET attempts == Lines({"processed", "skipping"})
        IN  /\ pc = "extract" => Len(attempts) = i - 1
            /\ \A k \in 1..Len(attempts) :
                  /\ attempts[k].f = ref_files[k].path
                  /\ (attempts[k].t = "skipping") <=> ~ref_files[k].decodes
            /\ pc = "built" =>
                  /\ Len(attempts) = Len(ref_files)
                  /\ Len(residuals) = Len(SurvivorFiles)
                  /\ fingerprint = DivideByStd(Mean(Align(Survivors)))
            /\ (pc = "crashed" /\ err \notin {"size", "extension", "open"}
                  /\ SurvivorFiles # <<>>) => fingerprint # NoGrid

\* a strict fingerprint built from a single survivor, every other member of the
\* reference set having failed extraction
C7_Witness ==
    /\ mode = "strict"
    /\ pc = "built"
    /\ Len(residuals) = 1
    /\ Len(Lines({"skipping"})) >= 14

\* C8: with survivors of whatever shapes the alignment does not raise, and
\* every aligned residual is the top-left sub-grid of its residual of height
\* min(heights) and width min(widths); the fingerprint has that shape too.
C8_AlignToMinShape ==
    (Pipeline /\ pc \notin {"start", "validate", "hash"} /\ \E k \in 1..Len(ref_files) : ref_files[k].decodes) =>
        LET sf == SurvivorFiles
            hs == {sf[k].raw.h : k \in 1..Len(sf)}
            ws == {sf[k].raw.w : k \in 1..Len(sf)}
            mh == CHOOSE x \in hs : \A y \in hs : x <= y
            mw == CHOOSE x \in ws : \A y \in ws : x <= y
        IN  /\ err \notin {"min() arg is an empty sequence", "inhomogeneous shape"}
            /\ fingerprint # NoGrid =>
                  /\ fingerprint.h = mh /\ fingerprint.w = mw
                  /\ Len(fingerprint.c) = mh * mw
                  /\ Len(residuals) = Len(sf)
                  /\ \A k \in 1..Len(residuals) :
                        LET whole == ExtractResidual(sf[k])
                        IN  /\ residuals[k].h = mh /\ residuals[k].w = mw
                            /\ Len(residuals[k].c) = mh * mw
                            /\ \A r \in 1..mh, c \in 1..mw :
                                  residuals[k].c[(r - 1) * mw + c]
                                    = whole.c[(r - 1) * whole.w + c]

\* a fingerprint whose height comes from one survivor and whose width comes
\* from another, smaller than either of them
C8_Witness ==
    /\ pc = "built"
    /\ \E k, m \in 1..Len(SurvivorFiles) :
          /\ SurvivorFiles[k].raw.h > fingerprint.h
          /\ SurvivorFiles[m].raw.w > fingerprint.w
          /\ SurvivorFiles[k].raw.w = fingerprint.w
          /\ SurvivorFiles[m].raw.h = fingerprint.h

\* C9: a comparison whose rendering failed has still reported its score.
C9_ScoreDespiteRenderFailure ==
    (pc = "crashed" /\ err = "savefig") =>
        \E m \in 1..Len(stdout) : stdout[m].t = "score" /\ stdout[m].n = corr

\* C10: whenever the two operands of the correlation are bound, they have the
\* same shape.
C10_EqualShapeOperands ==
    res_a # NoGrid => Shape(res_a) = Shape(res_b)

====
